---- MODULE Spec2Model ----
(***************************************************************************)
(* Intercept prediction of two Keplerian orbits (twobody/intercept.c):     *)
(* the range intersector, the time windower, the closest-approach          *)
(* searcher and the orbit-level orchestrator.                              *)
(*                                                                         *)
(* Numbers.  The C code computes in doubles.  Here every angle is an       *)
(* integer number of grid steps of pi/PI radians, every time an integer    *)
(* number of ticks and every distance an integer number of length units.   *)
(* One grid step is far larger than the epsilon of zero(), so zero(x) is   *)
(* x = 0.  Mean anomaly is kept divided by the mean motion n, that is in   *)
(* ticks, so that t_pe + M/n is an integer.                                *)
(***************************************************************************)
EXTENDS Integers, Sequences, FiniteSets, TLC

VARIABLES in, ir, tw, se, ob

vars == <<in, ir, tw, se, ob>>

(***************************************************************************)
(* Program constants and model bounds                                      *)
(***************************************************************************)
\* M_PI in grid steps (one step is pi/4)
PI == 4
\* max_times is 1 or MaxTimes
MaxTimes == 3
\* the search window starts at -MaxStart or MaxStart - 1
MaxStart == 3
\* and is ShortWindow or LongWindow ticks long
ShortWindow == 5
LongWindow == 21
\* orbit2 passes periapsis at 0 or MaxEpoch (orbit1 at 0)
MaxEpoch == 3
\* orbit2 needs 1..MaxRate ticks per grid step of mean anomaly (orbit1 one)
MaxRate == 2
\* max_steps is drawn from 2..MaxSteps
MaxSteps == 4
\* the closest approach of a trajectory is at most MaxMiss length units
MaxMiss == 2
\* radii of periapsis and apoapsis are drawn from 1..MaxRadius
MaxRadius == 5
\* distance thresholds are drawn from 1..MaxThreshold
MaxThreshold == 2

TwoPI == 2 * PI

\* The searcher halves a time step or divides it by vmax (1 or 2) at most once
\* per step, so it computes exactly on times and lengths that are whole
\* multiples of 1/Scale; the searcher's times and lengths are in that unit.
Scale == 2 ^ MaxSteps

(***************************************************************************)
(* math_utils.h and libm, as the code uses them                            *)
(***************************************************************************)
fmin(a, b) == IF a < b THEN a ELSE b
fmax(a, b) == IF a > b THEN a ELSE b
fabs(a) == IF a < 0 THEN -a ELSE a
zero(x) == x = 0
sign(x) == IF x > 0 THEN 1 ELSE IF x < 0 THEN -1 ELSE 0
clamp(lo, hi, x) == fmax(lo, fmin(hi, x))

\* the sentinel for an empty range: begin >= end
EmptyRanges == [k \in 0..3 |-> IF k % 2 = 0 THEN 1 ELSE -1]

(***************************************************************************)
(* Orbits, as the code sees them through the accessors of orbit.h/conic.h  *)
(***************************************************************************)
conic_closed(o) == o.kind \in {"circular", "elliptic"}
conic_circular(o) == o.kind = "circular"
orbit_radial(o) == o.kind = "radial"
orbit_elliptic(o) == conic_closed(o)
conic_periapsis(o) == o.pe
conic_apoapsis(o) == o.ap
\* hyperbolic trajectories reach true anomalies below 3pi/4 here
conic_max_true_anomaly(o) == IF conic_closed(o) THEN PI ELSE PI - 1

\* the true anomaly (0..maxf) at which the orbit's radius is r
true_anomaly_from_radius(o, r) ==
    IF r <= o.pe THEN 0
    ELSE IF conic_closed(o)
         THEN IF r >= o.ap THEN PI
              ELSE clamp(1, PI - 1, ((r - o.pe) * PI) \div (o.ap - o.pe))
         ELSE clamp(1, conic_max_true_anomaly(o) - 1, 1 + (r - o.pe) \div o.pe)

Shapes ==
    {[kind |-> "circular", pe |-> r, ap |-> r] : r \in 1..MaxRadius}
    \cup {[kind |-> "elliptic", pe |-> r, ap |-> a] :
            r \in 1..MaxRadius, a \in 1..MaxRadius}
    \cup {[kind |-> "hyperbolic", pe |-> r, ap |-> 0] : r \in 1..MaxRadius}
    \cup {[kind |-> "radial", pe |-> 0, ap |-> 0]}

OrbitShapes == {s \in Shapes : s.kind = "elliptic" => s.pe < s.ap}

\* the mutual orientation of the two orbital planes, as intercept_intersect
\* derives it: the true anomaly of the ascending node on orbit1 and the
\* half-width of the band around each node (asin of a clamped value)
PairGeometry ==
    {[coplanar |-> TRUE, f_an |-> 0, delta_f |-> <<0, 0>>]}
    \cup {[coplanar |-> FALSE, f_an |-> f, delta_f |-> <<d0, d1>>] :
            f \in (-PI)..PI, d0 \in 0..(PI \div 2), d1 \in 0..(PI \div 2)}

(***************************************************************************)
(* intersect_ranges                                                        *)
(***************************************************************************)
\* the loop of lines 16-22: fs[i*2+j] from range i of fs1 and range i of fs2
ranges_overlap(fs1, fs2) ==
    [k \in 0..3 |->
        LET i == k \div 2
            j == k % 2
            f0 == fs1[(IF fs1[2] < fs1[3] THEN 2*i ELSE 0) + j]
            f1 == fs2[(IF fs2[2] < fs2[3] THEN 2*i ELSE 0) + j]
        IN  IF j = 1 THEN fmin(f0, f1) ELSE fmax(f0, f1)]

\* lines 24-31: ranges overlap at apoapsis -> union ranges -2pi
union_apoapsis(fs, closed) ==
    IF closed /\ (fs[0] <= -PI \/ zero(fs[0] + PI))
              /\ (fs[3] >= PI \/ zero(fs[3] - PI))
    THEN [k \in 0..3 |->
            CASE k = 0 -> fmin(fs[0], fs[2] - TwoPI)
              [] k = 1 -> fmax(fs[1], fs[3] - TwoPI)
              [] k = 2 -> 1
              [] k = 3 -> -1]
    ELSE fs

\* lines 33-38: ranges overlap at periapsis -> union ranges
union_periapsis(fs) ==
    IF (fs[1] >= fs[2] \/ zero(fs[1] - fs[2])) /\ fs[2] < fs[3]
    THEN [k \in 0..3 |->
            CASE k = 0 -> fs[0]
              [] k = 1 -> fs[3]
              [] k = 2 -> 1
              [] k = 3 -> -1]
    ELSE fs

\* lines 40-46: second range overlaps apoapsis -> swap ranges -2pi
swap_apoapsis(fs) ==
    IF fs[2] < fs[3] /\ fs[3] > PI
    THEN [k \in 0..3 |->
            CASE k = 0 -> fs[2] - TwoPI
              [] k = 1 -> fs[3] - TwoPI
              [] k = 2 -> fs[0]
              [] k = 3 -> fs[1]]
    ELSE fs

\* lines 48-52: first range is empty, second is not -> swap ranges
swap_empty(fs) ==
    IF fs[2] < fs[3] /\ ~(fs[0] < fs[1])
    THEN [k \in 0..3 |->
            CASE k = 0 -> fs[2]
              [] k = 1 -> fs[3]
              [] k = 2 -> 1
              [] k = 3 -> -1]
    ELSE fs

\* lines 54-58: first range covers full orbit -> -pi..pi
full_orbit(fs) ==
    IF fs[1] - fs[0] >= TwoPI
    THEN [k \in 0..3 |->
            CASE k = 0 -> -PI
              [] k = 1 -> PI
              [] k = 2 -> fs[2]
              [] k = 3 -> fs[3]]
    ELSE fs

range_count(fs) ==
    (IF fs[0] < fs[1] THEN 1 ELSE 0) + (IF fs[2] < fs[3] THEN 1 ELSE 0)

intersect_ranges(fs1, fs2, closed) ==
    LET fs == full_orbit(swap_empty(swap_apoapsis(union_periapsis(
                  union_apoapsis(ranges_overlap(fs1, fs2), closed)))))
    IN  [n |-> range_count(fs), fs |-> fs]

(***************************************************************************)
(* intercept_intersect                                                     *)
(***************************************************************************)
\* lines 84-89: the apoapsis-periapsis test
apsis_pruned(o1, o2, threshold) ==
    \/ conic_closed(o1) /\ conic_apoapsis(o1) <= conic_periapsis(o2) - threshold
    \/ conic_closed(o2) /\ conic_apoapsis(o2) <= conic_periapsis(o1) - threshold

\* lines 91-115: true anomaly between target apoapsis/periapsis +/- threshold
radius_ranges(o1, o2, threshold) ==
    LET maxf == conic_max_true_anomaly(o1)
        fpe == IF conic_circular(o1) THEN 0
               ELSE true_anomaly_from_radius(o1, conic_periapsis(o2) - threshold)
        fap == IF conic_circular(o1) \/ ~conic_closed(o2) THEN maxf
               ELSE true_anomaly_from_radius(o1, conic_apoapsis(o2) + threshold)
        f1 == fmin(fap, fpe)
        f2 == fmax(fap, fpe)
    IN  IF conic_closed(o1) /\ zero(f1) /\ ~(f2 < PI)
        THEN [k \in 0..3 |-> CASE k = 0 -> -TwoPI [] k = 1 -> TwoPI
                               [] k = 2 -> 1 [] k = 3 -> -1]
        ELSE IF zero(f1)
        THEN [k \in 0..3 |-> CASE k = 0 -> -f2 [] k = 1 -> f2
                               [] k = 2 -> 1 [] k = 3 -> -1]
        ELSE IF conic_closed(o1) /\ ~(f2 < PI)
        THEN [k \in 0..3 |-> CASE k = 0 -> -TwoPI [] k = 1 -> -f1
                               [] k = 2 -> f1 [] k = 3 -> TwoPI]
        ELSE [k \in 0..3 |-> CASE k = 0 -> -f2 [] k = 1 -> -f1
                               [] k = 2 -> f1 [] k = 3 -> f2]

\* lines 117-147: the band of true anomaly around each node
node_ranges(g) ==
    IF g.coplanar
    THEN [k \in 0..3 |-> CASE k = 0 -> -PI [] k = 1 -> PI
                           [] k = 2 -> 1 [] k = 3 -> -1]
    ELSE LET f_an == g.f_an
             f_dn == f_an - sign(f_an) * PI
         IN  [k \in 0..3 |->
                LET i == k \div 2
                    f_node == IF i = 0 THEN fmin(f_an, f_dn) ELSE fmax(f_an, f_dn)
                    delta_f == g.delta_f[i + 1]
                IN  IF k % 2 = 0 THEN f_node - delta_f ELSE f_node + delta_f]

\* the whole function: the count it returns and the 4-slot buffer after the
\* call (buf is the buffer before the call: the early returns write nothing)
intercept_intersect(o1, o2, threshold, g, buf) ==
    IF orbit_radial(o1) \/ orbit_radial(o2) THEN [n |-> 0, fs |-> buf]
    ELSE IF apsis_pruned(o1, o2, threshold) THEN [n |-> 0, fs |-> buf]
    ELSE intersect_ranges(radius_ranges(o1, o2, threshold), node_ranges(g),
                          conic_closed(o1))

(***************************************************************************)
(* The range intersector on its own: one call of intercept_intersect       *)
(***************************************************************************)
\* what an uninitialised 4-slot buffer may hold
Garbage == {EmptyRanges, [k \in 0..3 |-> IF k % 2 = 0 THEN -1 ELSE 1]}

Idle == [pc |-> "idle"]

InitIntersect ==
    /\ in \in [orbit1 : OrbitShapes, orbit2 : OrbitShapes,
               threshold : 1..MaxThreshold, geom : PairGeometry]
    /\ ir \in [pc : {"call"}, n : {-1}, fs : Garbage]
    /\ tw = Idle
    /\ se = Idle
    /\ ob = Idle

IntersectCall ==
    /\ ir.pc = "call"
    /\ LET r == intercept_intersect(in.orbit1, in.orbit2, in.threshold,
                                    in.geom, ir.fs)
       IN  ir' = [pc |-> "done", n |-> r.n, fs |-> r.fs]
    /\ UNCHANGED <<in, tw, se, ob>>

NextIntersect == IntersectCall

SpecIntersect == InitIntersect /\ [][NextIntersect]_vars

(***************************************************************************)
(* Time and anomaly (anomaly.h, conic.h).  An orbit carries its periapsis  *)
(* time tpe and rate, the ticks its mean anomaly needs per grid step       *)
(* (1/n); mean anomalies are in ticks.                                     *)
(***************************************************************************)
orbit_periapsis_time(o) == o.tpe

\* Kepler's equation, true -> mean anomaly: odd and strictly increasing; on a
\* closed orbit pi maps to half a period
anomaly_true_to_mean(o, f) ==
    CASE o.kind = "circular" -> o.rate * f
      [] o.kind = "elliptic" -> o.rate * sign(f) * ((fabs(f) * (fabs(f) + PI)) \div PI)
      [] OTHER -> o.rate * f * (fabs(f) + 1)

\* 2pi/n in ticks
conic_period(o) == 2 * anomaly_true_to_mean(o, PI)

\* mean -> true anomaly of an open orbit: the inverse of the above, within
\* the true anomalies the trajectory reaches
anomaly_mean_to_true(o, M) ==
    LET maxf == conic_max_true_anomaly(o)
        below == {f \in (-maxf)..maxf : anomaly_true_to_mean(o, f) <= M}
    IN  IF below = {} THEN -maxf
        ELSE CHOOSE f \in below : \A g \in below : g <= f

\* C's trunc(a/b) for b > 0
trunc_div(a, b) == IF a >= 0 THEN a \div b ELSE -((-a) \div b)

(***************************************************************************)
(* intercept_times                                                         *)
(***************************************************************************)
\* lines 170-198: the time ranges of orbit number o (0 or 1) on the orbit
\* that passes periapsis at t_pe
time_ranges(o, orbit, fs, t0, t1) ==
    LET t_pe == orbit_periapsis_time(orbit)
        f_t0 == IF conic_closed(orbit) THEN -PI
                ELSE anomaly_mean_to_true(orbit, t0 - t_pe)
        f_t1 == IF conic_closed(orbit) THEN PI
                ELSE anomaly_mean_to_true(orbit, t1 - t_pe)
    IN  [k \in 0..3 |->
            LET i == k \div 2
                f0 == fs[4*o + 2*i]
                f1 == fs[4*o + 2*i + 1]
                f == clamp(f_t0, f_t1, fs[4*o + k])
                M == anomaly_true_to_mean(orbit, f)
                       - (IF f < -PI THEN conic_period(orbit) ELSE 0)
            IN  IF f0 >= f1 THEN EmptyRanges[k] ELSE t_pe + M]

\* lines 200-204: period and number of complete orbits to t0
orbit_period(orbit) == IF conic_closed(orbit) THEN conic_period(orbit) ELSE 0

orbits_to(orbit, t0) ==
    IF conic_closed(orbit)
    THEN LET P == conic_period(orbit)
             t_pe == orbit_periapsis_time(orbit)
         IN  trunc_div(2 * (t0 - t_pe) + (IF t_pe > t0 THEN -P ELSE P), 2 * P)
    ELSE 0

\* lines 163-209: the state of intercept_times when it enters its loop; buf
\* is the caller's interval buffer, of cap doubles.  wr_max and rd_max are
\* the highest slot written in buf and read in fs so far, merged says that an
\* interval was merged into its predecessor, shrunk that a merge moved an
\* interval's end backwards
intercept_times_enter(o1, o2, t0, t1, fs, buf, cap, max_times) ==
    [pc |-> "loop", t0 |-> t0, t1 |-> t1, max_times |-> max_times,
     times |-> <<time_ranges(0, o1, fs, t0, t1), time_ranges(1, o2, fs, t0, t1)>>,
     periods |-> <<orbit_period(o1), orbit_period(o2)>>,
     n_orbit |-> <<orbits_to(o1, t0), orbits_to(o2, t0)>>,
     isect |-> <<0, 0>>, num_times |-> 0, t |-> t0,
     fs |-> fs, buf |-> buf, cap |-> cap, wr_max |-> -1, rd_max |-> -1,
     merged |-> FALSE, shrunk |-> FALSE, ret |-> -1]

\* line 210: the loop condition
times_running(w) == w.t < w.t1 /\ w.num_times < w.max_times

\* a store that never merges: every non-empty overlap becomes a new interval
store_apart(w, t_begin, t_end) ==
    [w EXCEPT !.buf[2*w.num_times] = t_begin,
              !.buf[2*w.num_times + 1] = t_end,
              !.wr_max = fmax(w.wr_max, 2*w.num_times + 1),
              !.num_times = w.num_times + 1]

\* lines 226-238: the interval buffer after a non-empty overlap
store_interval(w, t_begin, t_end) ==
    IF w.num_times >= 1 /\ (t_begin <= w.buf[2*w.num_times - 1]
                            \/ zero(t_begin - w.buf[2*w.num_times - 1]))
    THEN [w EXCEPT !.buf[2*w.num_times - 1] = t_end, !.merged = TRUE,
                   !.shrunk = w.shrunk \/ t_end < w.buf[2*w.num_times - 1]]
    ELSE [w EXCEPT !.buf[2*w.num_times] = t_begin,
                   !.buf[2*w.num_times + 1] = t_end,
                   !.wr_max = fmax(w.wr_max, 2*w.num_times + 1),
                   !.num_times = w.num_times + 1]

\* lines 211-253: one iteration of the merge-walk; orbits is <<orbit1, orbit2>>
intercept_times_step(w, orbits) ==
    LET trange == [o \in 1..2 |->
                     [j \in 0..1 |->
                        w.times[o][2*w.isect[o] + j] + w.n_orbit[o] * w.periods[o]]]
        t_begin == fmax(w.t, fmax(trange[1][0], trange[2][0]))
        t_end == fmin(w.t1, fmin(trange[1][1], trange[2][1]))
        w1 == [w EXCEPT !.t = fmax(w.t0, t_end)]
        w2 == IF t_begin < t_end THEN store_interval(w1, t_begin, t_end) ELSE w1
        advance == IF trange[1][1] < trange[2][1] THEN 0 ELSE 1
        next == w.isect[advance + 1] + 1
        \* lines 244-245 read fs[4*advance + 2*next] and the slot after it
        w3 == [w2 EXCEPT !.isect[advance + 1] = next,
                         !.rd_max = fmax(w.rd_max, 4*advance + 2*next + 1)]
        exhausted == next = 2 \/ w.fs[4*advance + 2*next] >= w.fs[4*advance + 2*next + 1]
    IN  IF ~exhausted THEN w3
        ELSE IF ~orbit_elliptic(orbits[advance + 1])
        THEN [w3 EXCEPT !.pc = "done", !.ret = w3.num_times]
        ELSE [w3 EXCEPT !.isect[advance + 1] = 0,
                        !.n_orbit[advance + 1] = w.n_orbit[advance + 1] + 1]

\* line 256
intercept_times_return(w) == [w EXCEPT !.pc = "done", !.ret = w.num_times]

(***************************************************************************)
(* The time windower on its own: one call of intercept_times, on the       *)
(* ranges intercept_intersect returns for each orbit against the other     *)
(***************************************************************************)
\* every non-empty result of intercept_intersect, with the kind of orbit1
RangeOutputs ==
    {x \in {LET r == intercept_intersect(c[1], c[2], c[3], c[4], EmptyRanges)
            IN  [kind |-> c[1].kind, n |-> r.n, fs |-> r.fs] :
              c \in OrbitShapes \X OrbitShapes \X (1..MaxThreshold) \X PairGeometry} :
       x.n >= 1}

\* those with every endpoint on a multiple of pi/2
CoarseRanges ==
    {x \in RangeOutputs : \A k \in 0..3 : x.fs[k] % 2 = 0 \/ x.fs[k] = EmptyRanges[k]}

join_ranges(a, b) == [k \in 0..7 |-> IF k < 4 THEN a[k] ELSE b[k - 4]]

InitTimes ==
    /\ \E a \in CoarseRanges, b \in CoarseRanges, e \in {0, MaxEpoch},
          r \in 1..MaxRate, s \in {-MaxStart, MaxStart - 1},
          l \in {ShortWindow, LongWindow}, m \in {1, MaxTimes} :
          in = [orbit1 |-> [kind |-> a.kind, tpe |-> 0, rate |-> 1],
                orbit2 |-> [kind |-> b.kind, tpe |-> e, rate |-> r],
                fs |-> join_ranges(a.fs, b.fs),
                t0 |-> s, t1 |-> s + l, max_times |-> m]
    /\ ir = Idle
    /\ tw = [pc |-> "call"]
    /\ se = Idle
    /\ ob = Idle

\* the caller's buffer holds 2*max_times doubles (intercept_test)
TimesCall ==
    /\ tw.pc = "call"
    /\ tw' = intercept_times_enter(in.orbit1, in.orbit2, in.t0, in.t1, in.fs,
                 [i \in 0..(2*in.max_times - 1) |-> 0], 2*in.max_times,
                 in.max_times)
    /\ UNCHANGED <<in, ir, se, ob>>

TimesStep ==
    /\ tw.pc = "loop"
    /\ times_running(tw)
    /\ tw' = intercept_times_step(tw, <<in.orbit1, in.orbit2>>)
    /\ UNCHANGED <<in, ir, se, ob>>

TimesReturn ==
    /\ tw.pc = "loop"
    /\ ~times_running(tw)
    /\ tw' = intercept_times_return(tw)
    /\ UNCHANGED <<in, ir, se, ob>>

NextTimes == TimesCall \/ TimesStep \/ TimesReturn

SpecTimes == InitTimes /\ [][NextTimes]_vars

(***************************************************************************)
(* The relative motion of the two orbits, as intercept_search sees it      *)
(* through orbit_position_eccentric and orbit_velocity_eccentric: the      *)
(* distance falls at speed v to its minimum d0 at time tc and rises again, *)
(* once every `every` ticks.  vmax bounds the relative speed.              *)
(***************************************************************************)
\* time since the nearest closest approach
since_approach(traj, t) ==
    ((t - traj.tc + traj.every \div 2) % traj.every) - traj.every \div 2

\* lines 382-385: dist = mag(dr) and vrel = dot(dr, dv) / dist at time t
distance_at(traj, t) == traj.d0 + traj.v * fabs(since_approach(traj, t))
closing_speed_at(traj, t) == traj.v * sign(since_approach(traj, t))

(***************************************************************************)
(* intercept_search                                                        *)
(***************************************************************************)
NaN == "NaN"

\* a horizon that follows the sample time instead of being raised
follow_horizon(t_end, t) == t

\* line 442: the search horizon is only ever raised
raise_horizon(t_end, t) == fmax(t_end, t)

\* lines 322-365: the state of intercept_search when it enters its loop
intercept_search_enter(t0, t1, threshold, target_distance, max_steps) ==
    [pc |-> "loop", t0 |-> t0, t1 |-> t1, threshold |-> threshold,
     target_distance |-> target_distance, max_steps |-> max_steps,
     step |-> 0, t |-> t0, prev_time |-> NaN, t_end |-> t1, prev_sgn |-> 0,
     min_dt |-> (t1 - t0) \div (max_steps \div 2),
     dist |-> NaN, vrel |-> NaN, eval_time |-> NaN,
     samples |-> <<>>, exit |-> "", flipped |-> FALSE,
     exact |-> (t1 - t0) % (max_steps \div 2) = 0,
     rec |-> [time |-> NaN], ret |-> NaN]

\* a searcher that keeps the sample nearest to the target distance and hands
\* that one back
finish_with_best(s, exit) ==
    LET miss(x) == fabs(x.dist - s.target_distance)
        best == CHOOSE k \in 1..Len(s.samples) :
                    \A j \in 1..Len(s.samples) :
                        miss(s.samples[k]) < miss(s.samples[j])
                        \/ (miss(s.samples[k]) = miss(s.samples[j]) /\ k <= j)
    IN  [s EXCEPT !.pc = "done", !.exit = exit,
                  !.rec = [time |-> s.samples[best].t,
                           distance |-> s.samples[best].dist,
                           speed |-> s.samples[best].vrel,
                           eval_time |-> s.samples[best].t],
                  !.ret = s.t_end]

\* lines 455-469: the intercept record and the consumed time
intercept_search_finish(s, exit) ==
    [s EXCEPT !.pc = "done", !.exit = exit,
              !.rec = [time |-> s.t, distance |-> s.dist, speed |-> s.vrel,
                       eval_time |-> s.eval_time],
              !.ret = s.t_end]

\* lines 442-444: the end of an iteration that did not break
search_advance(s, sgn, dt) ==
    [s EXCEPT !.t_end = raise_horizon(s.t_end, s.t), !.prev_time = s.t,
              !.prev_sgn = sgn, !.t = s.t + dt, !.step = s.step + 1]

\* lines 367-444: one iteration of the loop on the trajectory traj
intercept_search_step(s0, traj) ==
    LET dist == distance_at(traj, s0.t)
        vrel == closing_speed_at(traj, s0.t)
        s == [s0 EXCEPT !.dist = dist, !.vrel = vrel, !.eval_time = s0.t,
                        !.samples = Append(s0.samples,
                                           [t |-> s0.t, dist |-> dist, vrel |-> vrel])]
        sgn == sign(vrel) * sign(dist - s.target_distance)
    IN  IF zero(dist - fmax(0, s.target_distance))
        THEN \* minimization finished
             intercept_search_finish(s, "converged")
        ELSE IF sgn < 0 /\ dist < s.threshold /\ s.t_end > s.t0
        THEN \* below threshold, do minimization step: dt is set and unused
             intercept_search_finish(s, "minimization")
        ELSE IF /\ sgn > 0 /\ s.prev_sgn < 0
                /\ (s.t - s.prev_time) * traj.vmax + s.threshold
                     > fabs(dist - s.target_distance)
                /\ (s.t - s.prev_time) * (s.max_steps - s.step) > s.t1 - s.t_end
        THEN \* closest approach found, move time backwards
             LET half == (s.t - s.prev_time) \div 2
                 back == [s EXCEPT !.t_end = fmax(s.t, s.t_end), !.min_dt = half,
                                   !.t = s.prev_time, !.flipped = TRUE,
                                   !.exact = s.exact /\ (s.t - s.prev_time) % 2 = 0]
             IN  search_advance(back, s.prev_sgn, half)
        ELSE IF s.t > s.t1
        THEN \* search exhausted
             intercept_search_finish(s, "exhausted")
        ELSE \* searching, skip ahead in time
             LET len == fabs((dist - s.target_distance) - s.threshold)
                 dt == fmax(fmax(s.min_dt, -1), len \div traj.vmax)
             IN  search_advance([s EXCEPT !.exact = s.exact /\ len % traj.vmax = 0],
                                sgn, dt)

\* a loop that admits one more iteration than the budget
search_overrunning(s) == s.step <= s.max_steps

\* line 366: the loop condition
search_running(s) == s.step < s.max_steps

(***************************************************************************)
(* The searcher on its own: one call of intercept_search                   *)
(***************************************************************************)
Trajectories ==
    {[tc |-> c * Scale, d0 |-> d * Scale, v |-> sv[1], vmax |-> sv[2],
      every |-> e * Scale] :
        c \in (-2)..(LongWindow \div 2), d \in 0..MaxMiss,
        sv \in {<<1, 1>>, <<1, 2>>, <<2, 2>>},
        e \in {LongWindow \div 2, 4 * LongWindow}}

InitSearch ==
    /\ in \in [t0 : {0}, t1 : {6 * Scale, 12 * Scale},
               threshold : {h * Scale : h \in 1..MaxThreshold},
               target_distance : {0, 2 * MaxThreshold * Scale},
               max_steps : 2..MaxSteps, traj : Trajectories]
    /\ ir = Idle
    /\ tw = Idle
    /\ se = [pc |-> "call"]
    /\ ob = Idle

SearchCall ==
    /\ se.pc = "call"
    /\ se' = intercept_search_enter(in.t0, in.t1, in.threshold,
                                    in.target_distance, in.max_steps)
    /\ UNCHANGED <<in, ir, tw, ob>>

SearchStep ==
    /\ se.pc = "loop"
    /\ search_running(se)
    /\ se' = intercept_search_step(se, in.traj)
    /\ UNCHANGED <<in, ir, tw, ob>>

SearchFinish ==
    /\ se.pc = "loop"
    /\ ~search_running(se)
    /\ se' = intercept_search_finish(se, "budget")
    /\ UNCHANGED <<in, ir, tw, ob>>

NextSearch == SearchCall \/ SearchStep \/ SearchFinish

SpecSearch == InitSearch /\ [][NextSearch]_vars

(***************************************************************************)
(* intercept_orbit                                                         *)
(***************************************************************************)
\* the 4 slots fs + o*4 of the 8-slot buffer
slots_of(fs, o) == [k \in 0..3 |-> fs[4*o + k]]
with_slots(fs, o, r) == [k \in 0..7 |-> IF k \div 4 = o THEN r[k - 4*o] ELSE fs[k]]

\* line 484: return t1, a double, from a function that returns int
early_return(t1) == trunc_div(t1, Scale)

\* line 503: whether the record of a search counts as an intercept
accepted(rec, threshold, target_distance) == rec.distance <= threshold

\* line 487: the number of intervals asked of intercept_times
times_asked(max_intercepts) == 4 * max_intercepts
\* line 488: the number of doubles the interval buffer holds
times_allocated(max_intercepts) == times_asked(max_intercepts)

\* lines 481-485: one call of intercept_intersect, number ob.o of the two
OrbitIntersect ==
    /\ ob.pc = "intersect"
    /\ LET r == intercept_intersect(in.orbit1, in.orbit2, in.threshold, in.geom,
                                    slots_of(ob.fs, ob.o))
           fs == with_slots(ob.fs, ob.o, r.fs)
       IN  ob' = IF r.n = 0
                 THEN [ob EXCEPT !.pc = "done", !.fs = fs, !.early = TRUE,
                                 !.ret = early_return(in.t1)]
                 ELSE IF ob.o = 1
                 THEN [ob EXCEPT !.pc = "times", !.fs = fs]
                 ELSE [ob EXCEPT !.o = 1, !.fs = fs]
    /\ UNCHANGED <<in, ir, tw, se>>

\* lines 487-489: the call of intercept_times on a buffer of max_times doubles
OrbitTimes ==
    /\ ob.pc = "times"
    /\ LET max_times == times_asked(in.max_intercepts)
       IN  tw' = intercept_times_enter(in.orbit1, in.orbit2, in.t0, in.t1, ob.fs,
                     [i \in 0..(2*max_times - 1) |-> 0],
                     times_allocated(in.max_intercepts), max_times)
    /\ ob' = [ob EXCEPT !.pc = "windowing", !.windowed = TRUE]
    /\ UNCHANGED <<in, ir, se>>

\* line 489: intercept_times has returned
OrbitWindowed ==
    /\ ob.pc = "windowing"
    /\ tw.pc = "done"
    /\ ob' = [ob EXCEPT !.pc = "interval", !.ts = tw.ret, !.time = 0]
    /\ UNCHANGED <<in, ir, tw, se>>

\* lines 492-502: the next time interval, and the search in it
OrbitInterval ==
    /\ ob.pc = "interval"
    /\ IF ob.time < ob.ts
       THEN LET t_begin == tw.buf[2*ob.time]
                t_end == tw.buf[2*ob.time + 1]
            IN  IF t_begin < t_end /\ ob.num_intercepts < in.max_intercepts
                THEN /\ se' = intercept_search_enter(t_begin, t_end, in.threshold,
                                  in.target_distance, in.max_steps)
                     /\ ob' = [ob EXCEPT !.pc = "searching",
                                         !.searches = ob.searches + 1]
                ELSE /\ ob' = [ob EXCEPT !.time = ob.time + 1]
                     /\ UNCHANGED se
       ELSE /\ ob' = [ob EXCEPT !.pc = "done", !.ret = ob.num_intercepts]
            /\ UNCHANGED se
    /\ UNCHANGED <<in, ir, tw>>

\* a loop over the interval that stays in it until a record is accepted
OrbitSearchedUntilAccepted ==
    /\ ob.pc = "searching"
    /\ se.pc = "done"
    /\ LET n == ob.num_intercepts
           hit == accepted(se.rec, in.threshold, in.target_distance)
       IN  ob' = [ob EXCEPT !.pc = "interval",
                            !.intercepts[n] = se.rec,
                            !.wrote = ob.wrote \cup {n},
                            !.last = [rec |-> se.rec, counted |-> hit],
                            !.num_intercepts = IF hit THEN n + 1 ELSE n,
                            !.time = IF hit THEN ob.time + 1 ELSE ob.time]
    /\ UNCHANGED <<in, ir, tw, se>>

\* lines 503-508: intercept_search has returned; the record is in slot
\* num_intercepts of the caller's list
OrbitSearched ==
    /\ ob.pc = "searching"
    /\ se.pc = "done"
    /\ LET n == ob.num_intercepts
           hit == accepted(se.rec, in.threshold, in.target_distance)
       IN  ob' = [ob EXCEPT !.pc = "interval",
                            !.intercepts[n] = se.rec,
                            !.wrote = ob.wrote \cup {n},
                            !.last = [rec |-> se.rec, counted |-> hit],
                            !.num_intercepts = IF hit THEN n + 1 ELSE n,
                            !.time = ob.time + 1]
    /\ UNCHANGED <<in, ir, tw, se>>

\* intercept_times wrote past the end of the interval buffer: the behaviour
\* of intercept_orbit is undefined from there on, and it may also go on
OrbitUndefined ==
    /\ ob.pc = "interval"
    /\ tw.wr_max >= tw.cap
    /\ ob' = [ob EXCEPT !.pc = "undefined"]
    /\ UNCHANGED <<in, ir, tw, se>>

(***************************************************************************)
(* The whole pipeline: one call of intercept_orbit                         *)
(***************************************************************************)
\* radii 1, MaxRadius - 2 and MaxRadius, in the searcher's unit
SystemShapes ==
    {[s EXCEPT !.pe = s.pe * Scale, !.ap = s.ap * Scale] :
        s \in {x \in OrbitShapes : /\ x.pe \in {0, 1, MaxRadius - 2}
                                   /\ x.ap \in {0, 1, MaxRadius - 2, MaxRadius}}}

SystemGeometry ==
    {g \in PairGeometry : g.coplanar \/ (g.f_an = -1 /\ g.delta_f \in {<<1, 1>>, <<2, 1>>})}

SystemTrajectories ==
    {x \in Trajectories : /\ x.tc \in {0, 4 * Scale}
                          /\ x.d0 \in {0, Scale}
                          /\ x.v = x.vmax}

timed(shape, tpe, rate) ==
    [kind |-> shape.kind, pe |-> shape.pe, ap |-> shape.ap, tpe |-> tpe, rate |-> rate]

Init ==
    /\ \E s1 \in SystemShapes, s2 \in SystemShapes, g \in SystemGeometry,
          l \in {ShortWindow, LongWindow}, d \in {0, 2 * Scale},
          m \in 1..2, x \in SystemTrajectories, ms \in {2, MaxSteps} :
          in = [orbit1 |-> timed(s1, 0, Scale),
                orbit2 |-> timed(s2, MaxEpoch * Scale, Scale),
                geom |-> g, threshold |-> Scale, target_distance |-> d,
                t0 |-> -MaxStart * Scale, t1 |-> (l - MaxStart) * Scale,
                max_intercepts |-> m, max_steps |-> ms, traj |-> x]
    /\ ir = Idle
    /\ tw = Idle
    /\ se = Idle
    /\ \E junk \in Garbage :
          ob = [pc |-> "intersect", o |-> 0, fs |-> join_ranges(junk, junk),
                early |-> FALSE, windowed |-> FALSE, ts |-> 0, time |-> 0,
                num_intercepts |-> 0,
                intercepts |-> [i \in 0..(in.max_intercepts - 1) |-> [time |-> NaN]],
                wrote |-> {},
                last |-> [counted |-> FALSE], searches |-> 0, ret |-> -1]

Next ==
    \/ OrbitIntersect
    \/ OrbitTimes
    \/ TimesStep
    \/ TimesReturn
    \/ OrbitWindowed
    \/ OrbitInterval
    \/ SearchStep
    \/ SearchFinish
    \/ OrbitSearched
    \/ OrbitUndefined

Spec == Init /\ [][Next]_vars

\* intercept_orbit has not come to its end: Next is enabled
Running == ob.pc \notin {"done", "undefined"}

\* intercept_orbit is sequential code: whenever it has a next step, it takes
\* it.  This is WF_vars(Next) with ENABLED <<Next>>_vars written out as
\* Running.
FairSpec == Spec /\ ([]<>(~Running) \/ []<><<Next>>_vars)

(***************************************************************************)
(* C1: if either call of intercept_intersect made by intercept_orbit       *)
(* returns 0 ranges, intercept_orbit returns 0 intercepts, whatever the    *)
(* window, without calling intercept_times or intercept_search and without *)
(* writing an intercept record.                                            *)
(***************************************************************************)
C1_NoRangesNoIntercepts ==
    (ob.pc = "done" /\ ob.early) =>
        /\ ob.ret = 0
        /\ ~ob.windowed
        /\ ob.searches = 0
        /\ ob.wrote = {}

(***************************************************************************)
(* C2: for any target_distance >= 0, when a search started by              *)
(* intercept_orbit stops with its distance within threshold of             *)
(* target_distance, intercept_orbit counts that record as an intercept.    *)
(***************************************************************************)
C2_TargetDistanceCounted ==
    [][(/\ ob.pc = "searching"
        /\ se.pc = "done"
        /\ fabs(se.rec.distance - in.target_distance) <= in.threshold)
       => ob'.num_intercepts = ob.num_intercepts + 1]_vars

(***************************************************************************)
(* C3: counts never exceed capacity and no array is accessed outside its   *)
(* bounds: intercept_times returns at most max_times, writes only slots    *)
(* that exist in the interval buffer it was handed (the one intercept_orbit*)
(* allocates) and reads only slots 0..7 of the range input; intercept_orbit*)
(* returns at most max_intercepts and writes only records with an index    *)
(* below max_intercepts.                                                   *)
(***************************************************************************)
C3_WithinCapacity ==
    /\ tw.pc \in {"loop", "done"} =>
        /\ tw.num_times <= tw.max_times
        /\ tw.wr_max < tw.cap
        /\ tw.rd_max <= 7
    /\ (ob.pc = "done" /\ ~ob.early) =>
        /\ ob.ret <= in.max_intercepts
        /\ \A i \in ob.wrote : i < in.max_intercepts

(***************************************************************************)
(* C4: for any range inputs and any window t0 < t1, every interval in the  *)
(* output of intercept_times is non-empty and lies within [t0, t1], the    *)
(* intervals ascend, and consecutive intervals neither touch nor overlap:  *)
(* the end of each is strictly before the begin of the next (a candidate   *)
(* that touches the previous interval was merged into it), and no merge    *)
(* has moved an interval's end backwards.                                  *)
(***************************************************************************)
C4_IntervalsDisjointAscending ==
    tw.pc \in {"loop", "done"} =>
        /\ \A i \in 0..(tw.num_times - 1) :
            /\ tw.buf[2*i] < tw.buf[2*i + 1]
            /\ tw.t0 <= tw.buf[2*i]
            /\ tw.buf[2*i + 1] <= tw.t1
            /\ i > 0 => tw.buf[2*i - 1] < tw.buf[2*i]
        /\ ~tw.shrunk

\* intercept_times has returned two or more intervals, one of them merged
C4_MergedAndReturned == tw.pc = "done" /\ tw.ret >= 2 /\ tw.merged

(***************************************************************************)
(* C5: whenever intercept_intersect returns n in {1,2} for a non-radial    *)
(* orbit pair, each of the first n pairs has begin < end, the first pair   *)
(* lies within [-2pi, pi] and the second within [-pi, pi], with n = 2 the  *)
(* first range ends before the second begins, and the first range starts   *)
(* below -pi only when orbit1 is closed.                                   *)
(***************************************************************************)
C5_RangesWellFormed ==
    (ir.pc = "done" /\ ir.n \in {1, 2}) =>
        /\ ir.fs[0] < ir.fs[1]
        /\ -TwoPI <= ir.fs[0] /\ ir.fs[1] <= PI
        /\ ir.n = 2 =>
            /\ ir.fs[2] < ir.fs[3]
            /\ -PI <= ir.fs[2] /\ ir.fs[3] <= PI
            /\ ir.fs[1] < ir.fs[2]
        /\ ir.fs[0] < -PI => conic_closed(in.orbit1)

(***************************************************************************)
(* C6, as stated: if intercept_search uses up its step budget or runs past *)
(* t1, the record it returns is the best sample found: no sample evaluated *)
(* during the call is nearer to the target distance than the record.       *)
(***************************************************************************)
C6_BestSampleReturned ==
    (se.pc = "done" /\ se.exit \in {"budget", "exhausted"}) =>
        \A i \in 1..Len(se.samples) :
            fabs(se.rec.distance - se.target_distance)
                <= fabs(se.samples[i].dist - se.target_distance)

(***************************************************************************)
(* C6, amended: if intercept_search uses up its step budget or runs past   *)
(* t1, the record carries the distance and the closing speed of the last   *)
(* sample evaluated during the call, whether or not an earlier sample was  *)
(* nearer to the target distance.                                          *)
(***************************************************************************)
C6_LastSampleReturned ==
    (se.pc = "done" /\ se.exit \in {"budget", "exhausted"}) =>
        /\ se.rec.distance = se.samples[Len(se.samples)].dist
        /\ se.rec.speed = se.samples[Len(se.samples)].vrel

\* a search that used up its budget after a sample nearer than its last one
C6_BudgetUsedPastBetterSample ==
    /\ se.pc = "done"
    /\ se.exit = "budget"
    /\ \E i \in 1..Len(se.samples) :
          fabs(se.samples[i].dist - se.target_distance)
              < fabs(se.rec.distance - se.target_distance)

(***************************************************************************)
(* C7: on every exit path of intercept_search the time stored in the       *)
(* record is the time at which the record's distance and closing speed     *)
(* were evaluated.                                                         *)
(***************************************************************************)
C7_RecordTimeIsEvaluationTime ==
    se.pc = "done" => se.rec.time = se.rec.eval_time

(***************************************************************************)
(* C8: for every call of intercept_search with t0 < t1 and max_steps >= 1  *)
(* the time stored in the record lies within [t0, t1] of that call.        *)
(***************************************************************************)
C8_RecordTimeInWindow ==
    se.pc = "done" => (se.t0 <= se.rec.time /\ se.rec.time <= se.t1)

(***************************************************************************)
(* C9: every call of intercept_search with t0 < t1 makes progress: the     *)
(* search horizon starts at t1 and is only ever raised, and on every exit  *)
(* path the consumed time returned is the horizon, so it is strictly       *)
(* greater than t0 and never smaller than t1.                              *)
(***************************************************************************)
C9_ConsumedTimeProgresses ==
    /\ se.pc \in {"loop", "done"} => se.t_end >= se.t1
    /\ se.pc = "done" =>
        /\ se.ret = se.t_end
        /\ se.ret > se.t0
        /\ se.ret >= se.t1

\* a search that stepped back after a sign change and returned a horizon
\* beyond t1
C9_HorizonRaised == se.pc = "done" /\ se.flipped /\ se.ret > se.t1

(***************************************************************************)
(* C10: the records intercept_orbit returns are sorted by ascending time:  *)
(* of two consecutive returned records the earlier one's time is not       *)
(* greater than the later one's.  Stated for the calls in which            *)
(* intercept_times stayed inside the interval buffer.                      *)
(***************************************************************************)
C10_RecordsAscending ==
    (ob.pc = "done" /\ ~ob.early /\ tw.wr_max < tw.cap) =>
        \A i \in 0..(ob.ret - 2) :
            ob.intercepts[i].time <= ob.intercepts[i + 1].time

(***************************************************************************)
(* C11: on every return of intercept_intersect, the returns of 0 for a     *)
(* radial orbit and for apoapsis/periapsis pruning included, every output  *)
(* pair that is not counted in the return value is marked empty            *)
(* (begin >= end) in the 4-slot buffer, whatever the buffer held before.   *)
(***************************************************************************)
C11_UncountedPairsEmpty ==
    ir.pc = "done" =>
        \A j \in 0..1 : j >= ir.n => ir.fs[2*j] >= ir.fs[2*j + 1]

(***************************************************************************)
(* C12: no loop in the pipeline is unbounded: the merge-walk loop of       *)
(* intercept_times terminates, intercept_search evaluates at most          *)
(* max_steps samples and returns, and every call of intercept_orbit comes  *)
(* to its end (its return, or the point past which an overrun of the       *)
(* interval buffer leaves the behaviour undefined).                        *)
(***************************************************************************)
C12_NoUnboundedLoop ==
    /\ [](se.pc \in {"loop", "done"} => Len(se.samples) <= se.max_steps)
    /\ (tw.pc = "loop") ~> (tw.pc = "done")
    /\ (se.pc = "loop") ~> (se.pc = "done")
    /\ <>(ob.pc \in {"done", "undefined"})

\* a call that returned after a search which used all max_steps samples, in
\* the second interval or later
C12_ReturnedAfterFullSearch ==
    /\ ob.pc = "done"
    /\ ~ob.early
    /\ ob.searches >= 2
    /\ se.pc = "done"
    /\ Len(se.samples) = se.max_steps

(***************************************************************************)
(* C13: intercept_orbit runs intercept_intersect for each orbit against    *)
(* the other: the first four range slots it hands to intercept_times are   *)
(* orbit1's ranges relative to orbit2, the last four are orbit2's ranges   *)
(* relative to orbit1 (the two orbits swapped).  Stated for coplanar       *)
(* pairs, whose node band is the whole orbit whichever orbit comes first.  *)
(***************************************************************************)
C13_EachOrbitAgainstTheOther ==
    (ob.windowed /\ in.geom.coplanar) =>
        /\ slots_of(tw.fs, 0)
             = intercept_intersect(in.orbit1, in.orbit2, in.threshold,
                                   in.geom, EmptyRanges).fs
        /\ slots_of(tw.fs, 1)
             = intercept_intersect(in.orbit2, in.orbit1, in.threshold,
                                   in.geom, EmptyRanges).fs

(***************************************************************************)
(* C14: intersect_ranges returns ranges whose union is the set             *)
(* intersection of the two inputs' unions, from the overlap of every one   *)
(* of the 2x2 combinations of a range of the first input with a range of   *)
(* the second: no angle lying in both inputs is missing from the result.   *)
(* Stated on the inputs intercept_intersect builds that hold two non-empty,*)
(* disjoint, ordered ranges each, for every grid step [c, c+1] between -pi *)
(* and pi, the result read modulo a full turn.                             *)
(***************************************************************************)
C14_NoCommonAngleMissing ==
    (/\ ir.pc = "done"
     /\ ~orbit_radial(in.orbit1) /\ ~orbit_radial(in.orbit2)
     /\ ~apsis_pruned(in.orbit1, in.orbit2, in.threshold)) =>
        LET fs1 == radius_ranges(in.orbit1, in.orbit2, in.threshold)
            fs2 == node_ranges(in.geom)
            ordered(fs) == fs[0] < fs[1] /\ fs[1] < fs[2] /\ fs[2] < fs[3]
            within(fs, c) == \E i \in 0..1 :
                                 fs[2*i] <= c /\ c + 1 <= fs[2*i + 1]
        IN  (ordered(fs1) /\ ordered(fs2)) =>
                \A c \in (-PI)..(PI - 1) :
                    (within(fs1, c) /\ within(fs2, c)) =>
                        \E turn \in {-TwoPI, 0, TwoPI} : within(ir.fs, c + turn)

(***************************************************************************)
(* C15: when a sample of intercept_search is approaching the target and    *)
(* within threshold, the search takes one linear-extrapolation step of     *)
(* (target_distance - distance) / closing rate and stops: the time in the  *)
(* record is the sample time advanced by that step.                        *)
(***************************************************************************)
C15_ExtrapolationStepTaken ==
    (se.pc = "done" /\ se.exit = "minimization") =>
        (se.rec.time - se.eval_time) * se.vrel = se.target_distance - se.dist

(***************************************************************************)
(* C16: within one time interval intercept_orbit invokes intercept_search  *)
(* until the first intercept is accepted, the cap is hit or the interval   *)
(* is exhausted.  The consumed time a search returns is never before the   *)
(* end of its interval, so each interval is searched at most once, at most *)
(* one intercept is accepted per interval, and the returned count is at    *)
(* most the smaller of the number of intervals and max_intercepts.         *)
(***************************************************************************)
C16_OneInterceptPerInterval ==
    /\ ob.pc \in {"interval", "searching"} =>
        /\ ob.searches <= ob.time + (IF ob.pc = "searching" THEN 1 ELSE 0)
        /\ ob.num_intercepts <= ob.searches
        /\ ob.num_intercepts <= in.max_intercepts
    /\ (ob.pc = "searching" /\ se.pc = "done") =>
        se.ret >= tw.buf[2*ob.time + 1]
    /\ (ob.pc = "done" /\ ~ob.early) =>
        /\ ob.searches <= ob.ts
        /\ ob.ret <= ob.searches
        /\ ob.ret <= fmin(ob.ts, in.max_intercepts)

\* a call that returned with the cap reached, having searched an interval
\* without accepting its record and with intervals left unsearched
C16_CapReachedIntervalsLeft ==
    /\ ob.pc = "done"
    /\ ~ob.early
    /\ ob.ret = in.max_intercepts
    /\ ob.ret < ob.searches
    /\ ob.searches < ob.ts

====
